---- MODULE Spec2Model ----
(***************************************************************************)
(* A model of the poster tiling scripts: poster.py (margin- and            *)
(* rotation-aware), with the grid computations of imposter.py and          *)
(* poster_split.py.                                                        *)
(*                                                                         *)
(* Lengths given on the command line (inches) are held in quarter inches,  *)
(* so 8.5in = 34 and 11in = 44.  Every input of the model is a multiple of *)
(* a quarter inch and dpi is an integer, so the float products of the      *)
(* source (overlap_in * dpi, letter_w * dpi, ...) are exact and int() is   *)
(* truncation of an exact quotient by 4.  Page coordinates (points, 72 per *)
(* inch = 18 per quarter inch) are exact rationals [n, d].                 *)
(***************************************************************************)
EXTENDS Integers, Sequences, FiniteSets, TLC

(***************************************************************************)
(* Bounds of the model                                                     *)
(***************************************************************************)
\* poster width and height range over 1..MaxPosterIn whole inches
MaxPosterIn == 10
\* dpi ranges over 1..MaxDpi
MaxDpi == 2

(***************************************************************************)
(* Program constants                                                       *)
(***************************************************************************)
\* letter paper, 8.5in x 11in, in quarter inches
PaperW == 34
PaperH == 44
\* points per quarter inch (72 points per inch)
PtPerQ == 18
\* --dpi default
DefaultDpi == 300

(***************************************************************************)
(* Arithmetic of the source                                                *)
(***************************************************************************)
Abs(a) == IF a < 0 THEN -a ELSE a

\* int(n / d) for d > 0: truncation toward zero
Trunc(n, d) == IF n >= 0 THEN n \div d ELSE -((-n) \div d)

\* math.ceil(a / b), b # 0
CeilPos(a, b) == IF a >= 0 THEN (a + b - 1) \div b ELSE -((-a) \div b)
Ceil(a, b) == IF b > 0 THEN CeilPos(a, b) ELSE CeilPos(-a, -b)

Min(a, b) == IF a <= b THEN a ELSE b

\* int(inches * dpi), inches given in quarter inches
to_px(q, dpi) == Trunc(q * dpi, 4)

\* printable area of the sheet, in quarter inches
letter_w(margin_x) == PaperW - 2 * margin_x
letter_h(margin_y) == PaperH - 2 * margin_y

\* exact rationals n/d with d > 0; sums and comparisons keep a common
\* denominator where there is one, so that products stay small
RECURSIVE GCD(_, _)
GCD(a, b) == IF b = 0 THEN a ELSE GCD(b, a % b)
Rat(n, d) == [n |-> n, d |-> d]
RatI(i) == Rat(i, 1)
Norm(a) == LET g == GCD(Abs(a.n), a.d) IN Rat(a.n \div g, a.d \div g)
RatEq(a, b) == Norm(a) = Norm(b)
RatLe(a, b) == IF a.d = b.d THEN a.n <= b.n ELSE a.n * b.d <= b.n * a.d
RatLt(a, b) == IF a.d = b.d THEN a.n < b.n ELSE a.n * b.d < b.n * a.d
RatAdd(a, b) == IF a.d = b.d THEN Rat(a.n + b.n, a.d)
                ELSE Rat(a.n * b.d + b.n * a.d, a.d * b.d)

(***************************************************************************)
(* calculate_pages_needed: the grid, or a ZeroDivisionError                *)
(***************************************************************************)
calculate_pages_needed_floor(poster_width, poster_height, dpi, overlap_in, margin_x, margin_y) ==
    LET overlap_px == to_px(overlap_in, dpi)
        poster_px_w == to_px(poster_width, dpi)
        poster_px_h == to_px(poster_height, dpi)
        sheet_px_w == to_px(letter_w(margin_x), dpi)
        sheet_px_h == to_px(letter_h(margin_y), dpi)
    IN  IF sheet_px_w - overlap_px = 0 \/ sheet_px_h - overlap_px = 0
        THEN [err |-> TRUE, cols |-> 0, rows |-> 0]
        ELSE [err |-> FALSE,
              cols |-> (poster_px_w - overlap_px) \div (sheet_px_w - overlap_px),
              rows |-> (poster_px_h - overlap_px) \div (sheet_px_h - overlap_px)]

calculate_pages_needed(poster_width, poster_height, dpi, overlap_in, margin_x, margin_y) ==
    LET overlap_px == to_px(overlap_in, dpi)
        poster_px_w == to_px(poster_width, dpi)
        poster_px_h == to_px(poster_height, dpi)
        sheet_px_w == to_px(letter_w(margin_x), dpi)
        sheet_px_h == to_px(letter_h(margin_y), dpi)
    IN  IF sheet_px_w - overlap_px = 0 \/ sheet_px_h - overlap_px = 0
        THEN [err |-> TRUE, cols |-> 0, rows |-> 0]
        ELSE [err |-> FALSE,
              cols |-> Ceil(poster_px_w - overlap_px, sheet_px_w - overlap_px),
              rows |-> Ceil(poster_px_h - overlap_px, sheet_px_h - overlap_px)]

NoGrid == [err |-> FALSE, cols |-> 0, rows |-> 0]

(***************************************************************************)
(* Command-line strings and their parsers                                  *)
(***************************************************************************)
\* a size string: the number of parts split('x') gives, whether float()
\* accepts each part, and the two values
SizeStr(nparts, numeric, w, h) == [nparts |-> nparts, numeric |-> numeric, w |-> w, h |-> h]
\* a margin string: parts split(',') gives
MarginStr(nparts, numeric, x, y) == [nparts |-> nparts, numeric |-> numeric, x |-> x, y |-> y]

parse_size(size_str) ==
    IF size_str.nparts # 2 \/ ~size_str.numeric
    THEN [err |-> TRUE, width |-> 0, height |-> 0]
    ELSE [err |-> FALSE, width |-> size_str.w, height |-> size_str.h]

parse_margin(margin_str) ==
    IF margin_str.nparts = 1 /\ margin_str.numeric
    THEN [err |-> FALSE, margin_x |-> margin_str.x, margin_y |-> margin_str.x]
    ELSE IF margin_str.nparts = 2 /\ margin_str.numeric
    THEN [err |-> FALSE, margin_x |-> margin_str.x, margin_y |-> margin_str.y]
    ELSE [err |-> TRUE, margin_x |-> 0, margin_y |-> 0]

\* parse_color: named colors of reportlab and #RRGGBB are accepted
KnownColors == {"black", "red", "#ff0000"}
parse_color(color_str) == [err |-> color_str \notin KnownColors]

(***************************************************************************)
(* Tile geometry: the body of the rendering loop of poster.py              *)
(***************************************************************************)
\* a crop box whose cells advance by a whole sheet, ignoring the overlap
CropBoxNoOverlap(row, col, sheet_px_w, sheet_px_h, overlap_px, poster_px_w, poster_px_h) ==
    LET left == col * sheet_px_w
        upper == row * sheet_px_h
    IN  [left |-> left, upper |-> upper,
         right |-> Min(left + sheet_px_w, poster_px_w),
         lower |-> Min(upper + sheet_px_h, poster_px_h)]

\* the crop box of cell (row, col), in poster pixels
CropBox(row, col, sheet_px_w, sheet_px_h, overlap_px, poster_px_w, poster_px_h) ==
    LET left == col * (sheet_px_w - overlap_px)
        upper == row * (sheet_px_h - overlap_px)
    IN  [left |-> left, upper |-> upper,
         right |-> Min(left + sheet_px_w, poster_px_w),
         lower |-> Min(upper + sheet_px_h, poster_px_h)]

\* the size of the placed image in points: (letter * 72) * float(px) / sheet_px
PlacedStretched(letter, px, sheet_px) == Rat(PtPerQ * letter * sheet_px, sheet_px)
Placed(letter, px, sheet_px) == Rat(PtPerQ * letter * px, sheet_px)

\* offset * 72, offset = (float(sheet_px_h - h) / sheet_px_h) * letter_h
Offset72(lh, h, sheet_px_h) == Rat(PtPerQ * lh * (sheet_px_h - h), sheet_px_h)

\* the edges of cell (row, col) on which an alignment line is drawn
AlignmentEdgesAll(row, col, rows, cols) == {"left", "right", "above", "below"}
AlignmentEdges(row, col, rows, cols) ==
    (IF col > 0 THEN {"left"} ELSE {}) \cup
    (IF col < cols - 1 THEN {"right"} ELSE {}) \cup
    (IF row > 0 THEN {"above"} ELSE {}) \cup
    (IF row < rows - 1 THEN {"below"} ELSE {})

Line(edge, x0, y0, x1, y1) == [edge |-> edge, x0 |-> x0, y0 |-> y0, x1 |-> x1, y1 |-> y1]

\* the page emitted for cell (row, col): one iteration of the loop body
RenderPage(row, col, rows, cols, poster_width, poster_height, dpi, overlap_in, margin_x, margin_y) ==
    LET lw == letter_w(margin_x)
        lh == letter_h(margin_y)
        overlap_px == to_px(overlap_in, dpi)
        poster_px_w == to_px(poster_width, dpi)
        poster_px_h == to_px(poster_height, dpi)
        sheet_px_w == to_px(lw, dpi)
        sheet_px_h == to_px(lh, dpi)
        box == CropBox(row, col, sheet_px_w, sheet_px_h, overlap_px, poster_px_w, poster_px_h)
        w == box.right - box.left
        h == box.lower - box.upper
        offset == Offset72(lh, h, sheet_px_h)
        width == Placed(lw, w, sheet_px_w)
        height == Placed(lh, h, sheet_px_h)
        m_x == RatI(PtPerQ * margin_x)
        m_y == RatI(PtPerQ * margin_y)
        minx == m_x
        maxx == RatAdd(m_x, width)
        miny == IF row = rows - 1 THEN RatAdd(m_y, offset) ELSE m_y
        maxy == RatAdd(miny, height)
        xl == RatI(PtPerQ * overlap_in + PtPerQ * margin_x)
        xr == RatI(PtPerQ * (lw - overlap_in) + PtPerQ * margin_x)
        ya == RatI(PtPerQ * (lh - overlap_in) + PtPerQ * margin_y)
        yb == RatI(PtPerQ * overlap_in + PtPerQ * margin_y)
        edges == AlignmentEdges(row, col, rows, cols)
        bmaxx == IF col = cols - 1 THEN RatAdd(m_x, width)
                 ELSE RatI(PtPerQ * margin_x + PtPerQ * lw)
        bminy == IF row = rows - 1 THEN RatAdd(m_y, offset) ELSE m_y
        bmaxy == RatI(PtPerQ * margin_y + PtPerQ * lh)
    IN  [row |-> row, col |-> col, number |-> row * cols + col + 1,
         box |-> box, w |-> w, h |-> h,
         sheet_px_w |-> sheet_px_w, sheet_px_h |-> sheet_px_h,
         x |-> m_x,
         y |-> IF row = rows - 1 THEN RatAdd(m_y, offset) ELSE m_y,
         width |-> width, height |-> height,
         lines |-> {Line("left", xl, miny, xl, maxy) : e \in edges \cap {"left"}} \cup
                   {Line("right", xr, miny, xr, maxy) : e \in edges \cap {"right"}} \cup
                   {Line("above", minx, ya, maxx, ya) : e \in edges \cap {"above"}} \cup
                   {Line("below", minx, yb, maxx, yb) : e \in edges \cap {"below"}},
         rects |-> {[minx |-> m_x, miny |-> bminy, maxx |-> bmaxx, maxy |-> bmaxy]},
         cuts |-> {}]

\* imposter.py lines 110-177: the page of cell (row, col)
ImposterRenderPage(row, col, rows, cols, poster_width, poster_height, dpi, overlap_in, margin) ==
    LET lw == letter_w(margin)
        lh == letter_h(margin)
        ov_px == to_px(overlap_in, dpi)
        sw == to_px(lw, dpi)
        sh == to_px(lh, dpi)
        box == CropBox(row, col, sw, sh, ov_px, to_px(poster_width, dpi), to_px(poster_height, dpi))
        w == box.right - box.left
        h == box.lower - box.upper
        width == Placed(lw, w, sw)
        height == Placed(lh, h, sh)
        m == RatI(PtPerQ * margin)
        top == RatI(PtPerQ * lh + PtPerQ * margin)
        rgt == RatI(PtPerQ * lw + PtPerQ * margin)
        xl == RatI(PtPerQ * overlap_in + PtPerQ * margin)
        xr == RatI(PtPerQ * (lw - overlap_in) + PtPerQ * margin)
        ya == RatI(PtPerQ * (lh - overlap_in) + PtPerQ * margin)
        yb == RatI(PtPerQ * overlap_in + PtPerQ * margin)
        edges == AlignmentEdges(row, col, rows, cols)
        xcut == RatAdd(m, width)
        ycut == RatAdd(m, Rat(PtPerQ * lh * (sh - h), sh))
    IN  [row |-> row, col |-> col, number |-> row * cols + col + 1,
         box |-> box, w |-> w, h |-> h,
         sheet_px_w |-> sw, sheet_px_h |-> sh,
         x |-> m,
         y |-> IF row = rows - 1 THEN RatI(PtPerQ * (margin + overlap_in)) ELSE m,
         width |-> width, height |-> height,
         lines |-> {Line("left", xl, m, xl, top) : e \in edges \cap {"left"}} \cup
                   {Line("right", xr, m, xr, top) : e \in edges \cap {"right"}} \cup
                   {Line("above", m, ya, rgt, ya) : e \in edges \cap {"above"}} \cup
                   {Line("below", m, yb, rgt, yb) : e \in edges \cap {"below"}},
         rects |-> {[minx |-> m, miny |-> m, maxx |-> rgt, maxy |-> top]},
         cuts |-> (IF col = cols - 1 THEN {Line("vertical", xcut, m, xcut, top)} ELSE {}) \cup
                  (IF row = rows - 1 THEN {Line("horizontal", m, ycut, rgt, ycut)} ELSE {})]

\* Python's a // b and a % b, b # 0
FloorDiv(a, b) == IF b > 0 THEN a \div b ELSE (-a) \div (-b)
PyMod(a, b) == a - b * FloorDiv(a, b)

\* poster_split.py lines 19-24: integer division, plus one on a remainder
split_count_no_remainder(poster_px, sheet_px, ov_px) ==
    FloorDiv(poster_px - ov_px, sheet_px - ov_px)
split_count(poster_px, sheet_px, ov_px) ==
    FloorDiv(poster_px - ov_px, sheet_px - ov_px) +
    (IF PyMod(poster_px - ov_px, sheet_px - ov_px) # 0 THEN 1 ELSE 0)

\* poster_split.py lines 28-63: the page of cell (row, col); the segment is
\* drawn over the whole sheet
SplitRenderPage(row, col, rows, cols, poster_width, poster_height, dpi, overlap_in) ==
    LET lw == PaperW
        lh == PaperH
        ov_px == to_px(overlap_in, dpi)
        sw == to_px(lw, dpi)
        sh == to_px(lh, dpi)
        box == CropBox(row, col, sw, sh, ov_px, to_px(poster_width, dpi), to_px(poster_height, dpi))
        zero == RatI(0)
        top == RatI(PtPerQ * lh)
        rgt == RatI(PtPerQ * lw)
        xl == RatI(PtPerQ * overlap_in)
        xr == RatI(PtPerQ * (lw - overlap_in))
        ya == RatI(PtPerQ * overlap_in)
        yb == RatI(PtPerQ * (lh - overlap_in))
        edges == AlignmentEdges(row, col, rows, cols)
    IN  [row |-> row, col |-> col, number |-> 0,
         box |-> box, w |-> box.right - box.left, h |-> box.lower - box.upper,
         sheet_px_w |-> sw, sheet_px_h |-> sh,
         x |-> zero, y |-> zero, width |-> rgt, height |-> top,
         lines |-> {Line("left", xl, zero, xl, top) : e \in edges \cap {"left"}} \cup
                   {Line("right", xr, zero, xr, top) : e \in edges \cap {"right"}} \cup
                   {Line("above", zero, ya, rgt, ya) : e \in edges \cap {"above"}} \cup
                   {Line("below", zero, yb, rgt, yb) : e \in edges \cap {"below"}},
         rects |-> {},
         cuts |-> {}]

(***************************************************************************)
(* The orientation decision of main                                        *)
(***************************************************************************)
ShouldRotateOrTie(no_rotate, g, rg) == ~no_rotate /\ rg.cols * rg.rows <= g.cols * g.rows
ShouldRotate(no_rotate, g, rg) == ~no_rotate /\ rg.cols * rg.rows < g.cols * g.rows

(***************************************************************************)
(* Command lines of the model                                              *)
(***************************************************************************)
\* margins, in quarter inches: 0.25in, 2in, 3.5in
Margins == {1, 8, 14}
\* overlaps, in quarter inches: 0, 0.5in, 1in, 5in
Overlaps == {0, 2, 4, 20}

MarginStrs ==
    {MarginStr(1, TRUE, m, m) : m \in Margins} \cup
    {MarginStr(2, TRUE, m[1], m[2]) : m \in {mm \in Margins \X Margins : mm[1] # mm[2]}}

\* a command line of the script poster.py, imposter.py or poster_split.py
ArgsOf(script, size, margin, dpi, overlap, line_color, preview, no_rotate, image_ok) ==
    [script |-> script,
     size |-> size, margin |-> margin, dpi |-> dpi, overlap |-> overlap,
     line_color |-> line_color, preview |-> preview, no_rotate |-> no_rotate,
     image_ok |-> image_ok]

Args(size, margin, dpi, overlap, line_color, preview, no_rotate, image_ok) ==
    ArgsOf("poster", size, margin, dpi, overlap, line_color, preview, no_rotate, image_ok)

\* well-formed command lines over the bounded grid of values
GridArgs ==
    {Args(SizeStr(2, TRUE, 4 * w, 4 * h), m, d, o, "black", pv, nr, TRUE) :
        w \in 1..MaxPosterIn, h \in 1..MaxPosterIn, m \in MarginStrs,
        d \in 1..MaxDpi, o \in Overlaps, pv \in BOOLEAN, nr \in BOOLEAN}

\* -s 20x30 --margin 0.25 --dpi 300 --overlap 0.5
ScenarioA(pv, nr) ==
    Args(SizeStr(2, TRUE, 80, 120), MarginStr(1, TRUE, 1, 1), DefaultDpi, 2, "black", pv, nr, TRUE)
\* -s 8x8 --margin 0.25,1.5 --dpi 300 --overlap 0.5: the poster is one printable sheet
ScenarioB(pv, nr) ==
    Args(SizeStr(2, TRUE, 32, 32), MarginStr(2, TRUE, 1, 6), DefaultDpi, 2, "black", pv, nr, TRUE)

ScenarioArgs == {ScenarioA(pv, nr) : pv \in BOOLEAN, nr \in BOOLEAN} \cup
                {ScenarioB(pv, nr) : pv \in BOOLEAN, nr \in BOOLEAN}

\* command lines with a malformed size, margin or color, or an unreadable image
BadArgs ==
    {Args(sz, m, 1, 2, c, pv, FALSE, io) :
        sz \in {SizeStr(2, TRUE, 80, 120), SizeStr(1, TRUE, 80, 0), SizeStr(2, FALSE, 0, 0)},
        m \in {MarginStr(1, TRUE, 1, 1), MarginStr(3, TRUE, 1, 1), MarginStr(2, FALSE, 0, 0)},
        c \in {"black", "nosuchcolor", "#12"}, pv \in BOOLEAN, io \in BOOLEAN}

\* -s 8x0.25 --margin 0.5,5.5 --dpi 4 --overlap 0.5 --no-rotate: the printable
\* height is 0 and the grid is 2 x 1
ScenarioZeroSheet(pv) ==
    Args(SizeStr(2, TRUE, 32, 1), MarginStr(2, TRUE, 2, 22), 4, 2, "black", pv, TRUE, TRUE)

\* imposter.py and poster_split.py: posters of 3, 6, ... inches, so that the
\* larger sheets of these scripts give several rows and columns.  imposter.py
\* has no margin option (its margin is 0.25in) and poster_split.py prints to
\* the paper's edge; neither rotates.  The function of poster_split.py is
\* called with a poster size, a dpi and an overlap.
ImposterMargin == 1
ImposterArgs ==
    {ArgsOf("imposter", SizeStr(2, TRUE, 12 * w, 12 * h),
            MarginStr(1, TRUE, ImposterMargin, ImposterMargin), d, o, "black", pv, TRUE, TRUE) :
        w \in 1..MaxPosterIn, h \in 1..MaxPosterIn,
        d \in 1..MaxDpi, o \in Overlaps, pv \in BOOLEAN} \cup
    {ArgsOf("imposter", SizeStr(1, TRUE, 80, 0),
            MarginStr(1, TRUE, ImposterMargin, ImposterMargin), 1, 2, "black", pv, TRUE, TRUE) :
        pv \in BOOLEAN}
SplitArgs ==
    {ArgsOf("poster_split", SizeStr(2, TRUE, 12 * w, 12 * h),
            MarginStr(1, TRUE, 0, 0), d, o, "black", FALSE, TRUE, TRUE) :
        w \in 1..MaxPosterIn, h \in 1..MaxPosterIn,
        d \in 1..MaxDpi, o \in Overlaps}

Inputs == GridArgs \cup ScenarioArgs \cup BadArgs \cup
          {ScenarioZeroSheet(pv) : pv \in BOOLEAN} \cup ImposterArgs \cup SplitArgs

(***************************************************************************)
(* State                                                                   *)
(***************************************************************************)
VARIABLES
    args,           \* the parsed command line (argparse namespace)
    pc,             \* position of the run
    poster_width, poster_height, margin_x, margin_y, rotated,   \* locals of main
    grid0,          \* main: (cols, rows) of the poster as given (line 280)
    grid90,         \* main: (rotated_cols, rotated_rows) (line 281)
    cols, rows,     \* the grid of the preview or of the rendering
    row, col,       \* the rendering loop's position
    pages,          \* the pages emitted to the canvas, in order
    image,          \* "none", "open": Image.open has been called
    doc,            \* the output document: "none", "open", "saved"
    exit_code       \* -1 while running

mainvars == <<poster_width, poster_height, margin_x, margin_y, rotated, grid0, grid90>>
loopvars == <<cols, rows, row, col, pages>>
vars == <<args, pc, mainvars, loopvars, image, doc, exit_code>>

Init ==
    /\ args \in Inputs
    /\ pc = "main"
    /\ poster_width = 0 /\ poster_height = 0 /\ margin_x = 0 /\ margin_y = 0
    /\ rotated = FALSE
    /\ grid0 = NoGrid /\ grid90 = NoGrid
    /\ cols = 0 /\ rows = 0 /\ row = 0 /\ col = 0
    /\ pages = <<>>
    /\ image = "none" /\ doc = "none"
    /\ exit_code = -1

\* sys.exit(1)
Exit1 == pc' = "exited" /\ exit_code' = 1
\* an exception nothing catches: traceback and exit status 1
Crash == pc' = "crashed" /\ exit_code' = 1

(***************************************************************************)
(* main                                                                    *)
(***************************************************************************)
\* lines 271-276: parse_size, parse_margin
ParseArgs ==
    /\ args.script = "poster"
    /\ pc = "main"
    /\ LET sz == parse_size(args.size)
           mg == parse_margin(args.margin)
       IN  IF sz.err \/ mg.err
           THEN /\ Exit1
                /\ UNCHANGED mainvars
           ELSE /\ pc' = "orient"
                /\ poster_width' = sz.width /\ poster_height' = sz.height
                /\ margin_x' = mg.margin_x /\ margin_y' = mg.margin_y
                /\ UNCHANGED <<rotated, grid0, grid90, exit_code>>
    /\ UNCHANGED <<args, loopvars, image, doc>>

\* lines 278-286: the orientation decision
Orient ==
    /\ args.script = "poster"
    /\ pc = "orient"
    /\ IF args.no_rotate
       THEN /\ pc' = "dispatch"
            /\ UNCHANGED <<mainvars, exit_code>>
       ELSE LET g == calculate_pages_needed(poster_width, poster_height, args.dpi,
                                            args.overlap, margin_x, margin_y)
                rg == calculate_pages_needed(poster_height, poster_width, args.dpi,
                                             args.overlap, margin_y, margin_x)
            IN  IF g.err \/ rg.err
                THEN /\ Crash
                     /\ UNCHANGED mainvars
                ELSE /\ pc' = "dispatch"
                     /\ grid0' = g /\ grid90' = rg
                     /\ IF ShouldRotate(args.no_rotate, g, rg)
                        THEN /\ poster_width' = poster_height
                             /\ poster_height' = poster_width
                             /\ rotated' = TRUE
                        ELSE UNCHANGED <<poster_width, poster_height, rotated>>
                     /\ UNCHANGED <<margin_x, margin_y, exit_code>>
    /\ UNCHANGED <<args, loopvars, image, doc>>

\* line 290: the grid the preview reports
PreviewGridSwapped(pw, ph, dpi, overlap_in, mx, my) ==
    calculate_pages_needed(pw, ph, dpi, overlap_in, my, mx)
PreviewGrid(pw, ph, dpi, overlap_in, mx, my) ==
    calculate_pages_needed(pw, ph, dpi, overlap_in, mx, my)

\* lines 289-294: preview mode
Preview ==
    /\ args.script = "poster"
    /\ pc = "dispatch" /\ args.preview
    /\ LET g == PreviewGrid(poster_width, poster_height, args.dpi,
                            args.overlap, margin_x, margin_y)
       IN  IF g.err
           THEN /\ Crash
                /\ UNCHANGED <<cols, rows>>
           ELSE /\ pc' = "done" /\ exit_code' = 0
                /\ cols' = g.cols /\ rows' = g.rows
    /\ UNCHANGED <<args, mainvars, row, col, pages, image, doc>>

(***************************************************************************)
(* split_image_to_letter_overlap                                           *)
(***************************************************************************)
\* lines 296-121: the call, and parse_color
SplitColor ==
    /\ args.script = "poster"
    /\ pc = "dispatch" /\ ~args.preview
    /\ IF parse_color(args.line_color).err
       THEN Exit1
       ELSE pc' = "load" /\ UNCHANGED exit_code
    /\ UNCHANGED <<args, mainvars, loopvars, image, doc>>

\* lines 123-146: open, rotate, convert and resize the image
LoadImage ==
    /\ args.script = "poster"
    /\ pc = "load"
    /\ IF ~args.image_ok
       THEN /\ Crash
            /\ UNCHANGED image
       ELSE /\ image' = "open"
            /\ IF to_px(poster_height, args.dpi) = 0 \/ to_px(poster_width, args.dpi) = 0
               THEN Crash
               ELSE pc' = "plan" /\ UNCHANGED exit_code
    /\ UNCHANGED <<args, mainvars, loopvars, doc>>

\* lines 149-153: the grid of the rendering, and the canvas
PlanGrid ==
    /\ args.script = "poster"
    /\ pc = "plan"
    /\ LET g == calculate_pages_needed(poster_width, poster_height, args.dpi,
                                       args.overlap, margin_x, margin_y)
       IN  IF g.err
           THEN /\ Crash
                /\ UNCHANGED <<cols, rows, doc>>
           ELSE /\ cols' = g.cols /\ rows' = g.rows
                /\ doc' = "open"
                /\ pc' = IF g.rows >= 1 /\ g.cols >= 1 THEN "loop" ELSE "save"
                /\ UNCHANGED exit_code
    /\ UNCHANGED <<args, mainvars, row, col, pages, image>>

\* the loop header after the body of cell (row, col)
NextCell ==
    IF col + 1 < cols
    THEN col' = col + 1 /\ UNCHANGED <<row, pc>>
    ELSE /\ col' = 0 /\ row' = row + 1
         /\ pc' = IF row + 1 < rows THEN "loop" ELSE "save"

\* lines 155-238: one iteration of the loops, ending in showPage; the
\* divisions by sheet_px_h (line 173) and sheet_px_w (line 182) raise
\* ZeroDivisionError when the printable area has no pixels, and nothing
\* catches it
EmitPage ==
    /\ args.script = "poster"
    /\ pc = "loop"
    /\ IF to_px(letter_h(margin_y), args.dpi) = 0 \/ to_px(letter_w(margin_x), args.dpi) = 0
       THEN /\ Crash
            /\ UNCHANGED <<row, col, pages>>
       ELSE /\ pages' = Append(pages, RenderPage(row, col, rows, cols, poster_width,
                                   poster_height, args.dpi, args.overlap, margin_x, margin_y))
            /\ NextCell
            /\ UNCHANGED exit_code
    /\ UNCHANGED <<args, mainvars, cols, rows, image, doc>>

\* lines 240-243: c.save()
Save ==
    /\ args.script = "poster"
    /\ pc = "save"
    /\ doc' = "saved"
    /\ pc' = "done" /\ exit_code' = 0
    /\ UNCHANGED <<args, mainvars, loopvars, image>>

(***************************************************************************)
(* imposter.py                                                             *)
(***************************************************************************)
\* imposter.py lines 204-208: parse_size
ImposterParse ==
    /\ args.script = "imposter"
    /\ pc = "main"
    /\ LET sz == parse_size(args.size)
       IN  IF sz.err
           THEN /\ Exit1
                /\ UNCHANGED <<poster_width, poster_height>>
           ELSE /\ pc' = "dispatch"
                /\ poster_width' = sz.width /\ poster_height' = sz.height
                /\ UNCHANGED exit_code
    /\ UNCHANGED <<args, margin_x, margin_y, rotated, grid0, grid90, loopvars, image, doc>>

\* imposter.py lines 211-216: preview mode; calculate_pages_needed binds its
\* margin to the default 0.25
ImposterPreview ==
    /\ args.script = "imposter"
    /\ pc = "dispatch" /\ args.preview
    /\ LET g == calculate_pages_needed(poster_width, poster_height, args.dpi,
                                       args.overlap, ImposterMargin, ImposterMargin)
       IN  IF g.err
           THEN /\ Crash
                /\ UNCHANGED <<cols, rows>>
           ELSE /\ pc' = "done" /\ exit_code' = 0
                /\ cols' = g.cols /\ rows' = g.rows
    /\ margin_x' = ImposterMargin /\ margin_y' = ImposterMargin
    /\ UNCHANGED <<args, poster_width, poster_height, rotated, grid0, grid90,
                   row, col, pages, image, doc>>

\* imposter.py lines 218-224 and 63-101: the call; margin = 0.25; open, convert and
\* resize the image
ImposterLoad ==
    /\ args.script = "imposter"
    /\ pc = "dispatch" /\ ~args.preview
    /\ margin_x' = ImposterMargin /\ margin_y' = ImposterMargin
    /\ IF ~args.image_ok
       THEN /\ Crash
            /\ UNCHANGED image
       ELSE /\ image' = "open"
            /\ IF to_px(poster_height, args.dpi) = 0 \/ to_px(poster_width, args.dpi) = 0
               THEN Crash
               ELSE pc' = "plan" /\ UNCHANGED exit_code
    /\ UNCHANGED <<args, poster_width, poster_height, rotated, grid0, grid90, loopvars, doc>>

\* imposter.py lines 104-108: the grid and the canvas
ImposterPlan ==
    /\ args.script = "imposter"
    /\ pc = "plan"
    /\ LET g == calculate_pages_needed(poster_width, poster_height, args.dpi,
                                       args.overlap, margin_x, margin_y)
       IN  IF g.err
           THEN /\ Crash
                /\ UNCHANGED <<cols, rows, doc>>
           ELSE /\ cols' = g.cols /\ rows' = g.rows
                /\ doc' = "open"
                /\ pc' = IF g.rows >= 1 /\ g.cols >= 1 THEN "loop" ELSE "save"
                /\ UNCHANGED exit_code
    /\ UNCHANGED <<args, mainvars, row, col, pages, image>>

\* imposter.py lines 110-177: one iteration of the loops
ImposterEmitPage ==
    /\ args.script = "imposter"
    /\ pc = "loop"
    /\ pages' = Append(pages, ImposterRenderPage(row, col, rows, cols, poster_width,
                           poster_height, args.dpi, args.overlap, margin_x))
    /\ NextCell
    /\ UNCHANGED <<args, mainvars, cols, rows, image, doc, exit_code>>

\* imposter.py lines 179-182: c.save()
ImposterSave ==
    /\ args.script = "imposter"
    /\ pc = "save"
    /\ doc' = "saved"
    /\ pc' = "done" /\ exit_code' = 0
    /\ UNCHANGED <<args, mainvars, loopvars, image>>

(***************************************************************************)
(* poster_split.py                                                         *)
(***************************************************************************)
\* poster_split.py lines 7-17: the call; open, convert and resize the image
SplitLoad ==
    /\ args.script = "poster_split"
    /\ pc = "main"
    /\ poster_width' = args.size.w /\ poster_height' = args.size.h
    /\ IF ~args.image_ok
       THEN /\ Crash
            /\ UNCHANGED image
       ELSE /\ image' = "open"
            /\ IF to_px(args.size.h, args.dpi) = 0 \/ to_px(args.size.w, args.dpi) = 0
               THEN Crash
               ELSE pc' = "plan" /\ UNCHANGED exit_code
    /\ UNCHANGED <<args, margin_x, margin_y, rotated, grid0, grid90, loopvars, doc>>

\* poster_split.py lines 19-26: the grid and the canvas
SplitPlan ==
    /\ args.script = "poster_split"
    /\ pc = "plan"
    /\ LET ov_px == to_px(args.overlap, args.dpi)
           sw == to_px(PaperW, args.dpi)
           sh == to_px(PaperH, args.dpi)
       IN  IF sw - ov_px = 0 \/ sh - ov_px = 0
           THEN /\ Crash
                /\ UNCHANGED <<cols, rows, doc>>
           ELSE /\ cols' = split_count(to_px(poster_width, args.dpi), sw, ov_px)
                /\ rows' = split_count(to_px(poster_height, args.dpi), sh, ov_px)
                /\ doc' = "open"
                /\ pc' = IF rows' >= 1 /\ cols' >= 1 THEN "loop" ELSE "save"
                /\ UNCHANGED exit_code
    /\ UNCHANGED <<args, mainvars, row, col, pages, image>>

\* poster_split.py lines 28-63: one iteration of the loops
SplitEmitPage ==
    /\ args.script = "poster_split"
    /\ pc = "loop"
    /\ pages' = Append(pages, SplitRenderPage(row, col, rows, cols, poster_width,
                           poster_height, args.dpi, args.overlap))
    /\ NextCell
    /\ UNCHANGED <<args, mainvars, cols, rows, image, doc, exit_code>>

\* poster_split.py lines 65-67: c.save()
SplitSave ==
    /\ args.script = "poster_split"
    /\ pc = "save"
    /\ doc' = "saved"
    /\ pc' = "done" /\ exit_code' = 0
    /\ UNCHANGED <<args, mainvars, loopvars, image>>

Next ==
    \/ ParseArgs \/ Orient \/ Preview \/ SplitColor \/ LoadImage \/ PlanGrid \/ EmitPage \/ Save
    \/ ImposterParse \/ ImposterPreview \/ ImposterLoad \/ ImposterPlan \/ ImposterEmitPage
    \/ ImposterSave
    \/ SplitLoad \/ SplitPlan \/ SplitEmitPage \/ SplitSave

Spec == Init /\ [][Next]_vars

(***************************************************************************)
(* Quantities the properties are stated in                                 *)
(***************************************************************************)
\* the size and margins given on the command line
size0 == parse_size(args.size)
margin0 == parse_margin(args.margin)
WellFormed == ~size0.err /\ ~margin0.err

overlap_px == to_px(args.overlap, args.dpi)
\* the sheet of the rendering, and the poster in its current orientation
sheet_px_w == to_px(letter_w(margin_x), args.dpi)
sheet_px_h == to_px(letter_h(margin_y), args.dpi)
poster_px_w == to_px(poster_width, args.dpi)
poster_px_h == to_px(poster_height, args.dpi)

\* main has compared the two orientations
Compared == ~args.no_rotate /\ pc \in {"dispatch", "load", "plan", "loop", "save", "done"}
\* the grid of the run (cols, rows) has been computed
Planned == pc \in {"loop", "save", "done"}
\* the rendering has finished and the document is saved
Rendered == pc = "done" /\ doc = "saved"

\* n is the least integer with n * (sheet - overlap) + overlap >= poster
LeastCount(n, poster_px, sheet_px, ov_px) ==
    /\ n * (sheet_px - ov_px) + ov_px >= poster_px
    /\ (n - 1) * (sheet_px - ov_px) + ov_px < poster_px

\* C1: for poster_px >= 1 and sheet_px > overlap_px >= 0, each of cols and rows
\* returned by calculate_pages_needed is the least integer n with
\* n * (sheet_px - overlap_px) + overlap_px >= poster_px; the 20in x 30in poster
\* on the 8in x 10.5in sheet at 300 dpi and 0.5in overlap gives 3 x 3, 9 pages.
C1_LeastGrid ==
    /\ Planned =>
        /\ (poster_px_w >= 1 /\ sheet_px_w > overlap_px /\ overlap_px >= 0)
              => LeastCount(cols, poster_px_w, sheet_px_w, overlap_px)
        /\ (poster_px_h >= 1 /\ sheet_px_h > overlap_px /\ overlap_px >= 0)
              => LeastCount(rows, poster_px_h, sheet_px_h, overlap_px)
    /\ Compared =>
        LET w0 == to_px(size0.width, args.dpi)
            h0 == to_px(size0.height, args.dpi)
            sw0 == to_px(letter_w(margin0.margin_x), args.dpi)
            sh0 == to_px(letter_h(margin0.margin_y), args.dpi)
            sw90 == to_px(letter_w(margin0.margin_y), args.dpi)
            sh90 == to_px(letter_h(margin0.margin_x), args.dpi)
        IN  /\ (w0 >= 1 /\ sw0 > overlap_px /\ overlap_px >= 0)
                  => LeastCount(grid0.cols, w0, sw0, overlap_px)
            /\ (h0 >= 1 /\ sh0 > overlap_px /\ overlap_px >= 0)
                  => LeastCount(grid0.rows, h0, sh0, overlap_px)
            /\ (h0 >= 1 /\ sw90 > overlap_px /\ overlap_px >= 0)
                  => LeastCount(grid90.cols, h0, sw90, overlap_px)
            /\ (w0 >= 1 /\ sh90 > overlap_px /\ overlap_px >= 0)
                  => LeastCount(grid90.rows, w0, sh90, overlap_px)
    /\ \A pv \in BOOLEAN :
        /\ (args = ScenarioA(pv, FALSE) /\ Compared) => (grid0.cols = 3 /\ grid0.rows = 3)
        /\ (args = ScenarioA(pv, TRUE) /\ Planned) => (cols = 3 /\ rows = 3)
        /\ (args = ScenarioA(pv, TRUE) /\ Rendered) => Len(pages) = 9

C1_Witness ==
    /\ args = ScenarioA(FALSE, TRUE) /\ Rendered /\ cols = 3 /\ rows = 3 /\ Len(pages) = 9

\* C2: for every positive poster pixel size and every sheet with
\* sheet_px > overlap_px >= 0 the grid has cols >= 1 and rows >= 1, so every
\* run that reaches rendering emits at least one page.
C2_GridAtLeastOne ==
    (/\ poster_px_w >= 1 /\ poster_px_h >= 1
     /\ sheet_px_w > overlap_px /\ sheet_px_h > overlap_px /\ overlap_px >= 0)
    => /\ Planned => (cols >= 1 /\ rows >= 1)
       /\ Rendered => Len(pages) >= 1

\* the overlap does not let the sheet advance
InvalidLayout ==
    /\ WellFormed
    /\ \/ overlap_px >= to_px(letter_w(margin0.margin_x), args.dpi)
       \/ overlap_px >= to_px(letter_h(margin0.margin_y), args.dpi)

\* C3: when overlap_px >= the printable sheet width or height in pixels, grid
\* planning ends in a validation error: no grid is returned and no page is
\* emitted.
C3_InvalidLayoutRejected ==
    InvalidLayout =>
        /\ ~Compared /\ ~Planned
        /\ pages = <<>>
        /\ pc \notin {"crashed", "done"}

\* the two candidate grids of the command line, as main computes them
Grid0 == calculate_pages_needed(size0.width, size0.height, args.dpi, args.overlap,
                                margin0.margin_x, margin0.margin_y)
Grid90 == calculate_pages_needed(size0.height, size0.width, args.dpi, args.overlap,
                                 margin0.margin_y, margin0.margin_x)
Oriented == pc \in {"dispatch", "load", "plan", "loop", "save", "done"}

\* C4: rotated = auto-rotate enabled and the swapped candidate needs strictly
\* fewer sheets than the candidate as given; with --no-rotate the poster is
\* never rotated and keeps its width and height, and a tie keeps the
\* orientation as given.
C4_OrientationDecision ==
    Oriented =>
        /\ rotated = (~args.no_rotate /\ Grid90.cols * Grid90.rows < Grid0.cols * Grid0.rows)
        /\ args.no_rotate => ~rotated
        /\ (Grid90.cols * Grid90.rows = Grid0.cols * Grid0.rows) => ~rotated
        /\ rotated => (poster_width = size0.height /\ poster_height = size0.width)
        /\ ~rotated => (poster_width = size0.width /\ poster_height = size0.height)

\* a tie between two different grids, with auto-rotate enabled
C4_Witness ==
    /\ Oriented /\ ~args.no_rotate /\ ~rotated
    /\ grid0.cols * grid0.rows = grid90.cols * grid90.rows
    /\ grid0.cols # grid90.cols /\ grid0.cols * grid0.rows > 1

\* the sheet advances and the poster is larger than the overlap, whichever way
\* the poster is turned and the margins are assigned
ValidBothWays ==
    /\ WellFormed
    /\ \A m \in {margin0.margin_x, margin0.margin_y} :
          /\ to_px(letter_w(m), args.dpi) > overlap_px
          /\ to_px(letter_h(m), args.dpi) > overlap_px
    /\ to_px(size0.width, args.dpi) > overlap_px
    /\ to_px(size0.height, args.dpi) > overlap_px

\* C5: the sheet count of the orientation that is chosen and then rendered or
\* previewed is at most the sheet count of the alternative orientation
\* (stated for layouts valid in both orientations, where every grid is
\* positive).
C5_NeverMoreSheets ==
    (ValidBothWays /\ Compared /\ Planned) =>
        cols * rows <= (IF rotated THEN grid0.cols * grid0.rows
                        ELSE grid90.cols * grid90.rows)

\* the page of cell (r, c) among the emitted pages
PagesOf(r, c) == {k \in 1..Len(pages) : pages[k].row = r /\ pages[k].col = c}

\* C6: for a completed plan every pixel (x, y) of the poster lies in the crop
\* box of at least one cell, the last column's right is poster_px_w and the
\* last row's lower is poster_px_h.
C6_Coverage ==
    Rendered =>
        /\ \A x \in 0..(poster_px_w - 1) : \E c \in 0..(cols - 1) :
              \A r \in 0..(rows - 1) : \E k \in PagesOf(r, c) :
                  pages[k].box.left <= x /\ x < pages[k].box.right
        /\ \A y \in 0..(poster_px_h - 1) : \E r \in 0..(rows - 1) :
              \A c \in 0..(cols - 1) : \E k \in PagesOf(r, c) :
                  pages[k].box.upper <= y /\ y < pages[k].box.lower
        /\ \E k \in 1..Len(pages) :
              /\ pages[k].col = cols - 1 /\ pages[k].box.right = poster_px_w
              /\ pages[k].row = rows - 1 /\ pages[k].box.lower = poster_px_h

\* C7: horizontally adjacent cells share exactly overlap_px pixel columns,
\* right(r, c) - left(r, c + 1) = overlap_px, and vertically adjacent cells
\* share exactly overlap_px pixel rows.
C7_Overlap ==
    \A j, k \in 1..Len(pages) :
        /\ (pages[j].row = pages[k].row /\ pages[k].col = pages[j].col + 1)
              => pages[j].box.right - pages[k].box.left = overlap_px
        /\ (pages[j].col = pages[k].col /\ pages[k].row = pages[j].row + 1)
              => pages[j].box.lower - pages[k].box.upper = overlap_px

\* C8: a rendering run emits exactly cols * rows pages, in row-major order: the
\* k-th page (from 0) is cell (k div cols, k mod cols) and carries the number
\* row * cols + col + 1; the document is saved only after the last page.
C8_RowMajorPages ==
    /\ \A k \in 1..Len(pages) :
          /\ pages[k].row = (k - 1) \div cols
          /\ pages[k].col = (k - 1) % cols
          /\ args.script # "poster_split" =>
                pages[k].number = pages[k].row * cols + pages[k].col + 1
    /\ doc = "saved" => Len(pages) = cols * rows

Edges(page) == {l.edge : l \in page.lines}

\* C9: on the page of cell (row, col) a left overlap line is drawn iff col > 0,
\* a right one iff col < cols - 1, one for the edge shared with the row above
\* iff row > 0 and one for the row below iff row < rows - 1; a 1 x 1 plan gives
\* a single page with no alignment line.
C9_InteriorEdgesOnly ==
    /\ \A k \in 1..Len(pages) :
          /\ ("left" \in Edges(pages[k])) <=> (pages[k].col > 0)
          /\ ("right" \in Edges(pages[k])) <=> (pages[k].col < cols - 1)
          /\ ("above" \in Edges(pages[k])) <=> (pages[k].row > 0)
          /\ ("below" \in Edges(pages[k])) <=> (pages[k].row < rows - 1)
          /\ \A l \in pages[k].lines :
                /\ l.edge \in {"left", "right"} => (l.x0 = l.x1 /\ l.y0 # l.y1)
                /\ l.edge \in {"above", "below"} => (l.y0 = l.y1 /\ l.x0 # l.x1)
    /\ (Rendered /\ cols = 1 /\ rows = 1) => (Len(pages) = 1 /\ pages[1].lines = {})

\* an interior page of a grid of at least 3 x 3, with its four lines
C9_Witness ==
    \E k \in 1..Len(pages) :
        /\ 0 < pages[k].col /\ pages[k].col < cols - 1
        /\ 0 < pages[k].row /\ pages[k].row < rows - 1
        /\ Cardinality(pages[k].lines) = 4

\* placed points per source pixel, in lowest terms
PtPerPx(placed, px) == Norm(Rat(placed.n, placed.d * px))

\* C10: the placed width is printable_w_pt * w / sheet_px_w and the placed
\* height printable_h_pt * h / sheet_px_h, (w, h) the size of the crop box; the
\* points per source pixel are the same for every tile, and a partial tile is
\* not stretched to the full printable area.
C10_UniformScale ==
    args.script = "poster" => \A k \in 1..Len(pages) :
        LET p == pages[k]
            printable_w_pt == PtPerQ * letter_w(margin_x)
            printable_h_pt == PtPerQ * letter_h(margin_y)
        IN  /\ p.w = p.box.right - p.box.left /\ p.h = p.box.lower - p.box.upper
            /\ RatEq(p.width, Rat(printable_w_pt * p.w, sheet_px_w))
            /\ RatEq(p.height, Rat(printable_h_pt * p.h, sheet_px_h))
            /\ PtPerPx(p.width, p.w) = PtPerPx(pages[1].width, pages[1].w)
            /\ PtPerPx(p.height, p.h) = PtPerPx(pages[1].height, pages[1].h)
            /\ p.w < sheet_px_w => RatLt(p.width, RatI(printable_w_pt))
            /\ p.h < sheet_px_h => RatLt(p.height, RatI(printable_h_pt))

\* a plan with full tiles and a tile that is partial in both directions
C10_Witness ==
    /\ args.script = "poster" /\ Rendered /\ cols >= 2 /\ rows >= 2
    /\ pages[1].w = sheet_px_w /\ pages[1].h = sheet_px_h
    /\ pages[Len(pages)].w < sheet_px_w /\ pages[Len(pages)].h < sheet_px_h

\* the command line has a malformed size or margin or an unparseable color
Malformed == size0.err \/ margin0.err \/ parse_color(args.line_color).err

\* C11: in poster.py (preview or full render) a malformed size or margin, an
\* unparseable line color or an invalid layout ends the run with a non-zero
\* exit code before the image is opened, the document created or a page
\* emitted.
C11_ValidationFirst ==
    (args.script = "poster" /\ (Malformed \/ InvalidLayout)) =>
        /\ image = "none" /\ doc = "none" /\ pages = <<>>
        /\ pc # "done" /\ exit_code # 0

\* the grid a run renders, from the options other than --preview: the
\* orientation decision of main, then the grid of the chosen orientation
RenderGridOf(a) ==
    LET sz == parse_size(a.size)
        mg == parse_margin(a.margin)
        g == calculate_pages_needed(sz.width, sz.height, a.dpi, a.overlap,
                                    mg.margin_x, mg.margin_y)
        rg == calculate_pages_needed(sz.height, sz.width, a.dpi, a.overlap,
                                     mg.margin_y, mg.margin_x)
    IN  IF ~a.no_rotate /\ rg.cols * rg.rows < g.cols * g.rows
        THEN calculate_pages_needed(sz.height, sz.width, a.dpi, a.overlap,
                                    mg.margin_x, mg.margin_y)
        ELSE g

\* C12: a run with --preview never opens the image, never creates or saves
\* the document and emits no page, and the grid it reports is the grid a run
\* without --preview renders for the same options: both are the same function
\* of the options other than --preview.
C12_PreviewOnlyReports ==
    /\ args.preview => (image = "none" /\ doc = "none" /\ pages = <<>>)
    /\ (args.script \in {"poster", "imposter"} /\ Planned) =>
          (cols = RenderGridOf(args).cols /\ rows = RenderGridOf(args).rows)

\* a preview that reports the grid of a rotated poster with unequal margins
C12_Witness ==
    /\ args.preview /\ pc = "done" /\ rotated /\ margin_x # margin_y
    /\ cols >= 1 /\ rows >= 1 /\ cols # rows

\* pixel sizes of the comparison of the two grid computations
MaxSweepPx == 24

\* C13: for sheet_px > overlap_px >= 0 and poster_px >= 1 the integer division
\* plus remainder check of poster_split.py gives the same cols and rows as the
\* ceiling division of calculate_pages_needed on the same pixel values: in
\* every run of poster_split.py, and for all pixel values up to MaxSweepPx.
C13_GridCountsAgree ==
    /\ (args.script = "poster_split" /\ Planned) =>
          LET g == calculate_pages_needed(poster_width, poster_height, args.dpi,
                                          args.overlap, margin_x, margin_y)
          IN  /\ (poster_px_w >= 1 /\ sheet_px_w > overlap_px /\ overlap_px >= 0)
                    => cols = g.cols
              /\ (poster_px_h >= 1 /\ sheet_px_h > overlap_px /\ overlap_px >= 0)
                    => rows = g.rows
    /\ (args.script = "poster_split" /\ pc = "plan") =>
          \A poster_px \in 1..MaxSweepPx : \A sheet_px \in 1..MaxSweepPx :
              \A ov_px \in 0..(sheet_px - 1) :
                  split_count(poster_px, sheet_px, ov_px) =
                      Ceil(poster_px - ov_px, sheet_px - ov_px)

\* a run of poster_split.py whose columns divide with a remainder and whose
\* rows divide exactly
C13_Witness ==
    /\ args.script = "poster_split" /\ Planned /\ overlap_px > 0
    /\ cols >= 2 /\ rows >= 2
    /\ PyMod(poster_px_w - overlap_px, sheet_px_w - overlap_px) # 0
    /\ PyMod(poster_px_h - overlap_px, sheet_px_h - overlap_px) = 0

\* the layout is valid as rendered: the sheet advances in both directions
ValidRendered == sheet_px_w > overlap_px /\ sheet_px_h > overlap_px /\ overlap_px >= 0

\* C14: every cell the rendering loop emits has a crop box with
\* 0 <= left < right <= poster_px_w and 0 <= upper < lower <= poster_px_h.
C14_NoDegenerateCell ==
    \A k \in 1..Len(pages) :
        LET b == pages[k].box
        IN  /\ 0 <= b.left /\ b.left < b.right /\ b.right <= poster_px_w
            /\ 0 <= b.upper /\ b.upper < b.lower /\ b.lower <= poster_px_h

\* C15: in poster.py a tile of a row other than the last is placed at
\* y = margin_y, a tile of the last row at
\* y = margin_y + (1 - h / sheet_px_h) * printable_h, and on every page the top
\* of the placed image is the top of the printable area.
C15_TopAnchored ==
    args.script = "poster" => \A k \in 1..Len(pages) :
        LET p == pages[k]
            m == RatI(PtPerQ * margin_y)
            printable_h_pt == PtPerQ * letter_h(margin_y)
        IN  /\ p.row # rows - 1 => RatEq(p.y, m)
            /\ p.row = rows - 1 =>
                  RatEq(p.y, RatAdd(m, Rat(printable_h_pt * (sheet_px_h - p.h), sheet_px_h)))
            /\ RatEq(RatAdd(p.y, p.height), RatI(PtPerQ * margin_y + printable_h_pt))

\* the cut marks of a page, by direction
CutsOf(page, dir) == {l \in page.cuts : l.edge = dir}

\* C16: in imposter.py a vertical cut mark is drawn iff the tile is in the last
\* column and a horizontal one iff it is in the last row; the vertical mark is
\* at the right edge of the image placed on the page and the horizontal mark
\* at its bottom edge.
C16_CutMarks ==
    args.script = "imposter" => \A k \in 1..Len(pages) :
        LET p == pages[k]
        IN  /\ (CutsOf(p, "vertical") # {}) <=> (p.col = cols - 1)
            /\ (CutsOf(p, "horizontal") # {}) <=> (p.row = rows - 1)
            /\ \A l \in CutsOf(p, "vertical") :
                  RatEq(l.x0, RatAdd(p.x, p.width)) /\ RatEq(l.x1, l.x0)
            /\ \A l \in CutsOf(p, "horizontal") :
                  RatEq(l.y0, p.y) /\ RatEq(l.y1, l.y0)

\* the point (px, py) lies inside or on the rectangle r
InRect(px, py, r) ==
    /\ RatLe(r.minx, px) /\ RatLe(px, r.maxx)
    /\ RatLe(r.miny, py) /\ RatLe(py, r.maxy)

\* C17: on every page of poster.py the dashed border is the rectangle occupied
\* by the placed image, and both endpoints of every alignment line lie inside
\* or on that rectangle.
C17_MarksWithinContent ==
    args.script = "poster" => \A k \in 1..Len(pages) :
        LET p == pages[k]
        IN  /\ \A r \in p.rects :
                  /\ RatEq(r.minx, p.x) /\ RatEq(r.miny, p.y)
                  /\ RatEq(r.maxx, RatAdd(p.x, p.width))
                  /\ RatEq(r.maxy, RatAdd(p.y, p.height))
            /\ \A l \in p.lines :
                  LET img == [minx |-> p.x, miny |-> p.y,
                              maxx |-> RatAdd(p.x, p.width), maxy |-> RatAdd(p.y, p.height)]
                  IN  InRect(l.x0, l.y0, img) /\ InRect(l.x1, l.y1, img)

\* the run has ended: normally, by sys.exit(1) or by an uncaught exception
Ended == pc \in {"done", "exited", "crashed"}

\* C18: no run ends with a document that was created and not finalized: every
\* way a run can end after the canvas is created passes through c.save().
C18_DocumentFinalized ==
    Ended => doc # "open"

\* C19: in each of poster.py, imposter.py and poster_split.py the line of a
\* tile with a neighbour above (row > 0) lies overlap_in below the top edge of
\* the placed image, and the line of a tile with a neighbour below
\* (row < rows - 1) lies overlap_in above its bottom edge.
C19_LinesAtNeighbourContent ==
    \A k \in 1..Len(pages) :
        LET p == pages[k]
            ov == RatI(PtPerQ * args.overlap)
        IN  \A l \in p.lines :
                /\ l.edge = "above" => RatEq(RatAdd(l.y0, ov), RatAdd(p.y, p.height))
                /\ l.edge = "below" => RatEq(l.y0, RatAdd(p.y, ov))

\* C20: whenever main decides to rotate, the grid that preview reports or the
\* rendering computes for the swapped poster is the rotated candidate of the
\* comparison, whatever the two margins, and the number of pages emitted is
\* the sheet count of that candidate.
C20_RenderedGridIsWinner ==
    (args.script = "poster" /\ rotated /\ Planned) =>
        /\ cols = grid90.cols /\ rows = grid90.rows
        /\ Rendered => Len(pages) = grid90.cols * grid90.rows

\* C21: for sheet_px > overlap_px >= 0 and poster_px > overlap_px every tile
\* with col < cols - 1 has crop width sheet_px_w and every tile with
\* row < rows - 1 has crop height sheet_px_h; the crop width w of the last
\* column satisfies overlap_px < w <= sheet_px_w and the crop height h of the
\* last row satisfies overlap_px < h <= sheet_px_h.
C21_OnlyLastPartial ==
    (ValidRendered /\ poster_px_w > overlap_px /\ poster_px_h > overlap_px) =>
        \A k \in 1..Len(pages) :
            LET p == pages[k]
            IN  /\ p.w = p.box.right - p.box.left /\ p.h = p.box.lower - p.box.upper
                /\ p.col < cols - 1 => p.w = sheet_px_w
                /\ p.row < rows - 1 => p.h = sheet_px_h
                /\ p.col = cols - 1 => (overlap_px < p.w /\ p.w <= sheet_px_w)
                /\ p.row = rows - 1 => (overlap_px < p.h /\ p.h <= sheet_px_h)

\* a finished plan of at least 2 x 2 with a positive overlap, full tiles up to
\* the last column and row, and a last tile that is partial both ways
C21_Witness ==
    /\ args.script = "poster" /\ Rendered /\ ValidRendered /\ overlap_px > 0
    /\ poster_px_w > overlap_px /\ poster_px_h > overlap_px
    /\ cols >= 2 /\ rows >= 2
    /\ pages[1].w = sheet_px_w /\ pages[1].h = sheet_px_h
    /\ pages[Len(pages)].w < sheet_px_w /\ pages[Len(pages)].h < sheet_px_h

\* C22: in imposter.py, for every valid layout and every tile, the rectangle in
\* which the image is drawn (x from margin to margin + placed width, y from its
\* anchor to anchor + placed height) is contained in the printable rectangle
\* [margin, margin + printable_w] x [margin, margin + printable_h].
C22_ImageInsidePrintable ==
    (args.script = "imposter" /\ ValidRendered) => \A k \in 1..Len(pages) :
        LET p == pages[k]
            printable == [minx |-> RatI(PtPerQ * margin_x),
                          miny |-> RatI(PtPerQ * margin_y),
                          maxx |-> RatI(PtPerQ * margin_x + PtPerQ * letter_w(margin_x)),
                          maxy |-> RatI(PtPerQ * margin_y + PtPerQ * letter_h(margin_y))]
        IN  /\ InRect(p.x, p.y, printable)
            /\ InRect(RatAdd(p.x, p.width), RatAdd(p.y, p.height), printable)

====
